---- MODULE Spec2Model ----
(***************************************************************************)
(* Model of notebooks/portfolio_repl.ipynb: bs_elasticity, kernel_weights, *)
(* construct_portfolio and the build_portfolios loop.                      *)
(*                                                                         *)
(* numpy/pandas floats are modelled as extended reals: a finite value is a *)
(* fixed-point integer (value * SCALE), and NaN, +inf and -inf are kept as *)
(* separate values with the IEEE-754 rules the code relies on (x/0, 0/0,   *)
(* inf - inf, comparisons with NaN are false, pandas sums skip NaN).       *)
(***************************************************************************)
EXTENDS Integers, Sequences, FiniteSets

\* ------------------------------------------------------------------------
\* float64 values
\* ------------------------------------------------------------------------

\* Fixed-point resolution of finite floats: 4 decimal digits.
SCALE == 10000

\* Number of decimal digits of SCALE (long division produces them).
DIGITS == 4

Fin(v) == [k |-> "fin", v |-> v]
NaN == [k |-> "nan", v |-> 0]
Inf(s) == [k |-> "inf", v |-> s]

Zero == Fin(0)
One == Fin(SCALE)

IsFin(x) == x.k = "fin"
IsNaN(x) == x.k = "nan"
IsInf(x) == x.k = "inf"

\* F(x) with x evaluated once: the value of a local variable of the code
Let(x, F(_)) == CHOOSE out \in { F(v) : v \in {x} } : TRUE

Abs(a) == IF a < 0 THEN -a ELSE a
Sgn(a) == IF a < 0 THEN -1 ELSE IF a > 0 THEN 1 ELSE 0

\* sign of an extended real (0 for zero; NaN has none and is never asked)
XSgn(x) == Sgn(x.v)

\* a * b / SCALE on naturals, split so that no partial product overflows
MulNat(a, b) ==
    LET qa == a \div SCALE
        ra == a % SCALE
        qb == b \div SCALE
        rb == b % SCALE
    IN  qa * qb * SCALE + qa * rb + ra * qb + (ra * rb) \div SCALE

RECURSIVE Pow10(_)
Pow10(n) == IF n = 0 THEN 1 ELSE 10 * Pow10(n - 1)

\* the first n decimal digits of r / b, for 0 <= r < b
RECURSIVE DivDigits(_, _, _)
DivDigits(r, b, n) ==
    IF n = 0 THEN 0
    ELSE LET t == r * 10
         IN  (t \div b) * Pow10(n - 1) + DivDigits(t % b, b, n - 1)

\* a * SCALE / b on naturals, b > 0, by long division
DivNat(a, b) == (a \div b) * SCALE + DivDigits(a % b, b, DIGITS)

\* integer square root (Newton iteration)
RECURSIVE SqrtIter(_, _)
SqrtIter(n, x) ==
    Let((x + n \div x) \div 2, LAMBDA y : IF y >= x THEN x ELSE SqrtIter(n, y))

ISqrt(n) == IF n < 2 THEN n ELSE SqrtIter(n, n)

\* largest fixed-point value v with v * SCALE representable
SqrtSplit == 200000

\* sqrt of a non-negative fixed-point value
SqrtNat(v) ==
    IF v < SqrtSplit THEN ISqrt(v * SCALE) ELSE ISqrt(v) * ISqrt(SCALE)

XNeg(x) == IF IsNaN(x) THEN NaN ELSE [x EXCEPT !.v = -x.v]

XAdd(x, y) ==
    IF IsNaN(x) \/ IsNaN(y) THEN NaN
    ELSE IF IsInf(x) /\ IsInf(y) THEN (IF x.v = y.v THEN x ELSE NaN)
    ELSE IF IsInf(x) THEN x
    ELSE IF IsInf(y) THEN y
    ELSE Fin(x.v + y.v)

XSub(x, y) == XAdd(x, XNeg(y))

XMul(x, y) ==
    IF IsNaN(x) \/ IsNaN(y) THEN NaN
    ELSE IF IsInf(x) \/ IsInf(y)
         THEN (IF XSgn(x) = 0 \/ XSgn(y) = 0 THEN NaN ELSE Inf(XSgn(x) * XSgn(y)))
    ELSE Fin(Sgn(x.v) * Sgn(y.v) * MulNat(Abs(x.v), Abs(y.v)))

\* IEEE division: x/0 is +-inf, 0/0 and inf/inf are NaN, x/inf is 0
\* (the sign of a zero is not tracked: every zero divisor of the code is +0)
XDiv(x, y) ==
    IF IsNaN(x) \/ IsNaN(y) THEN NaN
    ELSE IF IsInf(x) THEN (IF IsInf(y) THEN NaN
                           ELSE Inf(x.v * (IF y.v < 0 THEN -1 ELSE 1)))
    ELSE IF IsInf(y) THEN Zero
    ELSE IF y.v = 0 THEN (IF x.v = 0 THEN NaN ELSE Inf(Sgn(x.v)))
    ELSE Fin(Sgn(x.v) * Sgn(y.v) * DivNat(Abs(x.v), Abs(y.v)))

\* comparisons: false as soon as one side is NaN
XLt(x, y) ==
    IF IsNaN(x) \/ IsNaN(y) THEN FALSE
    ELSE IF IsInf(x) THEN x.v < 0 /\ ~(IsInf(y) /\ y.v < 0)
    ELSE IF IsInf(y) THEN y.v > 0
    ELSE x.v < y.v

XGt(x, y) == XLt(y, x)

\* np.sqrt: NaN below zero
XSqrt(x) ==
    IF IsNaN(x) THEN NaN
    ELSE IF IsInf(x) THEN (IF x.v > 0 THEN x ELSE NaN)
    ELSE IF x.v < 0 THEN NaN
    ELSE Fin(SqrtNat(x.v))

\* np.log: ln(x) = 2 atanh((x-1)/(x+1)), four terms of the series
\* (accurate to the fixed-point resolution for 1/2 <= x <= 2)
XLog(x) ==
    IF IsNaN(x) THEN NaN
    ELSE IF IsInf(x) THEN (IF x.v > 0 THEN x ELSE NaN)
    ELSE IF x.v < 0 THEN NaN
    ELSE IF x.v = 0 THEN Inf(-1)
    ELSE Let(XDiv(XSub(x, One), XAdd(x, One)), LAMBDA z :
         Let(XMul(z, z), LAMBDA z2 :
         Let(XMul(z2, z), LAMBDA z3 :
         Let(XMul(z3, z2), LAMBDA z5 :
         Let(XAdd(XAdd(z, XDiv(z3, Fin(3 * SCALE))),
                  XAdd(XDiv(z5, Fin(5 * SCALE)),
                       XDiv(XMul(z5, z2), Fin(7 * SCALE)))), LAMBDA s :
         XAdd(s, s))))))

\* np.exp is 0.0 in float64 below -745.1332 (fixed-point)
ExpUnderflow == 7451332

\* e^(v/SCALE) for a fixed-point v: Taylor series to the fourth power on
\* [-1/4, 1/4], and e^x = (e^(x/2))^2 outside; a positive result too small for the
\* fixed-point resolution is kept positive (float64 holds it down to 1e-323)
RECURSIVE ExpFix(_)
ExpFix(v) ==
    IF Abs(v) <= SCALE \div 4
    THEN Let(Fin(v), LAMBDA x :
         Let(XMul(x, x), LAMBDA x2 :
         Let(XMul(x2, x), LAMBDA x3 :
         XAdd(XAdd(One, x),
              XAdd(XDiv(x2, Fin(2 * SCALE)),
                   XAdd(XDiv(x3, Fin(6 * SCALE)),
                        XDiv(XMul(x3, x), Fin(24 * SCALE))))).v)))
    ELSE Let(ExpFix(v \div 2), LAMBDA h :
         Let(MulNat(h, h), LAMBDA q : IF q = 0 THEN 1 ELSE q))

\* np.exp: 0.0 once the argument is below the float64 range
XExp(x) ==
    IF IsNaN(x) THEN NaN
    ELSE IF IsInf(x) THEN (IF x.v > 0 THEN x ELSE Zero)
    ELSE IF x.v < -ExpUnderflow THEN Zero
    ELSE Fin(ExpFix(x.v))

\* scipy.stats.norm.cdf on [0, 4.05] in steps of 0.05, times SCALE
CdfTable ==
    << 5000, 5199, 5398, 5596, 5793, 5987, 6179, 6368, 6554,
       6736, 6915, 7088, 7257, 7422, 7580, 7734, 7881, 8023,
       8159, 8289, 8413, 8531, 8643, 8749, 8849, 8944, 9032,
       9115, 9192, 9265, 9332, 9394, 9452, 9505, 9554, 9599,
       9641, 9678, 9713, 9744, 9772, 9798, 9821, 9842, 9861,
       9878, 9893, 9906, 9918, 9929, 9938, 9946, 9953, 9960,
       9965, 9970, 9974, 9978, 9981, 9984, 9987, 9989, 9990,
       9992, 9993, 9994, 9995, 9996, 9997, 9997, 9998, 9998,
       9998, 9999, 9999, 9999, 9999, 9999, 10000, 10000, 10000,
       10000 >>

\* step of CdfTable, in fixed-point units (0.05)
CdfStep == 500

\* Phi(v/SCALE) for v >= 0: linear interpolation in CdfTable, 1 beyond it
CdfNat(v) ==
    LET i == v \div CdfStep
        f == v % CdfStep
    IN  IF i + 2 > Len(CdfTable) THEN SCALE
        ELSE CdfTable[i + 1] + ((CdfTable[i + 2] - CdfTable[i + 1]) * f) \div CdfStep

\* norm.cdf: Phi(-x) = 1 - Phi(x); Phi(-inf) = 0, Phi(+inf) = 1
XCdf(x) ==
    IF IsNaN(x) THEN NaN
    ELSE IF IsInf(x) THEN (IF x.v > 0 THEN One ELSE Zero)
    ELSE IF x.v >= 0 THEN Fin(CdfNat(x.v))
    ELSE Fin(SCALE - CdfNat(-x.v))

\* ------------------------------------------------------------------------
\* bs_elasticity
\* ------------------------------------------------------------------------

Half == Fin(SCALE \div 2)

\* the put delta without its sign
PutDeltaUnsigned(d1) == XCdf(XNeg(d1))

\* delta = -norm.cdf(-d1) of the put branch
PutDelta(d1) == XNeg(XCdf(XNeg(d1)))

\* bs_elasticity(S, K, T, r, sigma, option_type) -> (elasticity, price);
\* d1 and delta are kept in the result for inspection
bs_elasticity(S, K, T, r, sigma, option_type) ==
    Let(XMul(sigma, XSqrt(T)), LAMBDA sv :
    Let(XLog(XDiv(S, K)), LAMBDA lg :
    Let(XMul(XAdd(r, XMul(Half, XMul(sigma, sigma))), T), LAMBDA drift :
    Let(XDiv(XAdd(lg, drift), sv), LAMBDA d1 :
    Let(XMul(K, XExp(XMul(XNeg(r), T))), LAMBDA disc :
    Let(IF option_type = "call"
        THEN XSub(XMul(S, XCdf(d1)), XMul(disc, XCdf(XSub(d1, sv))))
        ELSE XSub(XMul(disc, XCdf(XAdd(XNeg(d1), sv))), XMul(S, XCdf(XNeg(d1)))),
        LAMBDA price :
    Let(IF option_type = "call" THEN XCdf(d1) ELSE PutDelta(d1), LAMBDA delta :
    [elast |-> XDiv(XMul(delta, S), price), price |-> price,
     d1 |-> d1, delta |-> delta])))))))

\* ------------------------------------------------------------------------
\* kernel_weights
\* ------------------------------------------------------------------------

\* bw_m=0.0125, in fixed-point units
bw_m == 125

\* bw_t=10 (days)
bw_t == 10

\* cdist(grid, point, 'euclidean')[:, 0]: the plain distance of each row
\* (moneyness, ttm) to the point (k_s, ttm), no bandwidth applied
Dist(m, t, k_s, ttm) ==
    Let(XSub(m, k_s), LAMBDA dm :
    Let(XSub(t, ttm), LAMBDA dt :
    XSqrt(XAdd(XMul(dm, dm), XMul(dt, dt)))))

dists(moneyness_grid, maturity_grid, k_s, ttm) ==
    [i \in 1..Len(moneyness_grid) |->
        Dist(moneyness_grid[i], maturity_grid[i], k_s, ttm)]

\* dists / np.array([bw_m, bw_t]): numpy broadcasting of a length-N vector
\* against a length-2 vector. N = 1 stretches the single distance over both
\* bandwidths, N = 2 divides the first row's distance by bw_m and the second
\* row's by bw_t, any other N (0 included) is a ValueError.
Broadcasts(N) == N = 1 \/ N = 2

ScaledDists(d) ==
    [c \in 1..2 |-> XDiv(d[IF Len(d) = 1 THEN 1 ELSE c],
                         IF c = 1 THEN Fin(bw_m) ELSE Fin(bw_t * SCALE))]

\* weights = np.exp(-0.5 * (...).sum()): one scalar for the whole candidate set
KernelScalar(d) ==
    Let(ScaledDists(d), LAMBDA sd :
    Let(XAdd(sd[1], sd[2]), LAMBDA total : XExp(XNeg(XMul(Half, total)))))

\* kernel_weights(moneyness_grid, maturity_grid, k_s, ttm): raises, or returns
\* weights / weights.sum() where weights is the scalar above (its .sum() is
\* itself): 1.0, or NaN = 0/0 when the exponential underflowed to 0.0
kernel_weights(moneyness_grid, maturity_grid, k_s, ttm) ==
    IF ~Broadcasts(Len(moneyness_grid))
    THEN [raised |-> TRUE, weights |-> NaN]
    ELSE Let(KernelScalar(dists(moneyness_grid, maturity_grid, k_s, ttm)),
             LAMBDA weights : [raised |-> FALSE, weights |-> XDiv(weights, weights)])

\* ------------------------------------------------------------------------
\* construct_portfolio
\* ------------------------------------------------------------------------

\* r=0.01 default of construct_portfolio
RATE == 100

\* the divisor of subset['ttm']/365
DAYS == 365

\* the threshold of subset['weight'] > 0.01
MINW == 100

\* pandas Series.sum(): NaN entries are skipped, an empty sum is 0
RECURSIVE SumSkipNa(_)
SumSkipNa(xs) ==
    IF xs = << >> THEN Zero
    ELSE IF IsNaN(Head(xs)) THEN SumSkipNa(Tail(xs))
    ELSE XAdd(Head(xs), SumSkipNa(Tail(xs)))

\* columns of a quote row as floats
ColS(q) == Fin(q.underlying * SCALE)
ColK(q) == Fin(q.strike * SCALE)
ColM(q) == Fin(q.moneyness)
ColTtm(q) == Fin(q.ttm * SCALE)
ColIv(q) == Fin(q.iv)
ColRet(q) == Fin(q.daily_return)

\* the rows of the table whatever their option type
RowsOfAnyType(data, option_type) ==
    [i \in 1..Len(data) |-> [idx |-> i, q |-> data[i]]]

\* data[(data['option_type'] == option_type)], each row with its index label
RowsOfType(data, option_type) ==
    SelectSeq([i \in 1..Len(data) |-> [idx |-> i, q |-> data[i]]],
              LAMBDA row : row.q.option_type = option_type)

\* subset[subset['weight'] > 0.01]
Keeps(w) == XGt(w, Fin(MINW))

\* the weights left as the threshold found them
RenormalizeSkipped(w, total) == w

\* subset['weight'] /= subset['weight'].sum()
Renormalize(w, total) == XDiv(w, total)

\* the elasticity of one row: bs_elasticity on the row's own columns
RowElasticity(q, r, option_type) ==
    bs_elasticity(ColS(q), ColK(q), XDiv(ColTtm(q), Fin(DAYS * SCALE)),
                  r, ColIv(q), option_type)

\* subset['leverage_return'] = subset['daily_return'] / elast
LeverageReturn(q, elast) == XDiv(ColRet(q), elast)

\* (subset['leverage_return'] * subset['weight']).sum()
WeightedSum(rows) ==
    SumSkipNa([p \in 1..Len(rows) |-> XMul(rows[p].leverage_return, rows[p].weight)])

\* subset.assign(weight=weights): the scalar is given to every row
Assign(selected, weights) ==
    [p \in 1..Len(selected) |->
        [idx |-> selected[p].idx, q |-> selected[p].q, weight |-> weights]]

\* lines 48-55 on one kept row: weight, elast, price (with the delta it was
\* computed from) and leverage_return
FinishRow(row, total, r, option_type) ==
    Let(RowElasticity(row.q, r, option_type), LAMBDA e :
    [idx |-> row.idx, q |-> row.q,
     weight |-> Renormalize(row.weight, total),
     elast |-> e.elast, price |-> e.price, delta |-> e.delta,
     leverage_return |-> LeverageReturn(row.q, e.elast)])

\* the frame of a call that raised in kernel_weights
RaisedFrame(k_s_target, ttm_target, option_type) ==
    [called |-> TRUE, raised |-> TRUE, option_type |-> option_type,
     k_s |-> k_s_target, ttm |-> ttm_target,
     assigned |-> << >>, subset |-> << >>, ret |-> NaN]

\* construct_portfolio(data, k_s_target, ttm_target, option_type, r): the call's
\* frame, with the table after assign (assigned), the final table (subset) and
\* the returned value (ret)
construct_portfolio(data, k_s_target, ttm_target, option_type, r) ==
    Let(RowsOfType(data, option_type), LAMBDA selected :
    Let(kernel_weights([p \in 1..Len(selected) |-> ColM(selected[p].q)],
                       [p \in 1..Len(selected) |-> ColTtm(selected[p].q)],
                       Fin(k_s_target), Fin(ttm_target * SCALE)), LAMBDA kw :
    IF kw.raised THEN RaisedFrame(k_s_target, ttm_target, option_type)
    ELSE
    Let(Assign(selected, kw.weights), LAMBDA assigned :
    Let(SelectSeq(assigned, LAMBDA row : Keeps(row.weight)), LAMBDA kept :
    Let(SumSkipNa([p \in 1..Len(kept) |-> kept[p].weight]), LAMBDA total :
    Let([p \in 1..Len(kept) |-> FinishRow(kept[p], total, r, option_type)],
        LAMBDA subset :
    [called |-> TRUE, raised |-> FALSE, option_type |-> option_type,
     k_s |-> k_s_target, ttm |-> ttm_target,
     assigned |-> assigned, subset |-> subset, ret |-> WeightedSum(subset)]))))))

\* ------------------------------------------------------------------------
\* build_portfolios
\* ------------------------------------------------------------------------

\* largest number of rows of option_data
MaxQuotes == 2

\* the index level of every quote
UNDERLYING == 100

Types == {"call", "put"}
Strikes == {95, 105}

\* (ttm in days, iv) of a quote: regular ones, an expired one (T = 0) and one
\* without volatility (sigma = 0)
Terms == { <<30, 2000>>, <<45, 2000>>, <<0, 2000>>, <<30, 0>> }

\* daily option return of a quote, by strike
ReturnOf(strike) == IF strike < UNDERLYING THEN 3000 ELSE -2000

\* the quote rows: moneyness is strike / underlying
Quotes ==
    { [option_type |-> ty, strike |-> st, underlying |-> UNDERLYING,
       moneyness |-> (st * SCALE) \div UNDERLYING,
       ttm |-> tm[1], iv |-> tm[2], daily_return |-> ReturnOf(st)] :
      ty \in Types, st \in Strikes, tm \in Terms }

RECURSIVE SeqsUpTo(_, _)
SeqsUpTo(S, n) ==
    IF n = 0 THEN { << >> }
    ELSE LET shorter == SeqsUpTo(S, n - 1)
         IN  shorter \cup { Append(s, x) : s \in shorter, x \in S }

\* the grids a run is started with
MGrids == { << >>, << 9500, 10500 >> }
TGrids == { << >>, << 30, 60 >> }
TypeLists == { << >>, << "call", "put" >>, << "put" >> }

VARIABLES option_data, m_grid, ttm_grid, option_types, n, pc, portfolios, frame

vars == << option_data, m_grid, ttm_grid, option_types, n, pc, portfolios, frame >>

NoFrame ==
    [called |-> FALSE, raised |-> FALSE, option_type |-> "", k_s |-> 0, ttm |-> 0,
     assigned |-> << >>, subset |-> << >>, ret |-> NaN]

\* number of (opt_type, k_s, ttm) iterations of the three nested loops
Total == Len(option_types) * Len(m_grid) * Len(ttm_grid)

\* the triple of iteration i (0-based): option type outermost, maturity innermost
Triple(i) ==
    [opt_type |-> option_types[(i \div (Len(m_grid) * Len(ttm_grid))) + 1],
     k_s |-> m_grid[((i \div Len(ttm_grid)) % Len(m_grid)) + 1],
     ttm |-> ttm_grid[(i % Len(ttm_grid)) + 1]]

Init ==
    /\ option_data \in SeqsUpTo(Quotes, MaxQuotes)
    /\ m_grid \in MGrids
    /\ ttm_grid \in TGrids
    /\ option_types \in TypeLists
    /\ n = 0
    /\ pc = "loop"
    /\ portfolios = << >>
    /\ frame = NoFrame

\* the call of construct_portfolio made by iteration n
CurrentCall ==
    construct_portfolio(option_data, Triple(n).k_s, Triple(n).ttm,
                        Triple(n).opt_type, Fin(RATE))

\* the fields of a row of the caller's table
RawFields ==
    {"option_type", "strike", "underlying", "moneyness", "ttm", "iv", "daily_return"}

\* a row of the caller's table carrying the columns written on lines 48 and 55
WrittenRow(row) ==
    [option_type |-> row.q.option_type, strike |-> row.q.strike,
     underlying |-> row.q.underlying, moneyness |-> row.q.moneyness,
     ttm |-> row.q.ttm, iv |-> row.q.iv, daily_return |-> row.q.daily_return,
     weight |-> row.weight, leverage_return |-> row.leverage_return]

\* the caller's table with the column writes landing in its own rows
CallerTableWritten(data, subset) ==
    [i \in 1..Len(data) |->
        IF \E p \in DOMAIN subset : subset[p].idx = i
        THEN WrittenRow(subset[CHOOSE p \in DOMAIN subset : subset[p].idx = i])
        ELSE data[i]]

\* the caller's table after a call that returned: data[...] (line 44) and
\* subset[...] (line 47) build new tables and assign (line 46) returns a new
\* one, so the column writes of lines 48 and 55 land in `subset` and the table
\* passed in keeps its rows
CallerTable(data, subset) == data

\* the record appended for a bucket
Record(t, ret) ==
    [type |-> t.opt_type, moneyness |-> t.k_s, ttm |-> t.ttm, return |-> ret]

\* one iteration of the loop body: construct_portfolio returns, the record is
\* appended
Iterate ==
    /\ pc = "loop"
    /\ n < Total
    /\ \E c \in {CurrentCall} :
          /\ ~c.raised
          /\ frame' = c
          /\ option_data' = CallerTable(option_data, c.subset)
          /\ portfolios' = Append(portfolios, Record(Triple(n), c.ret))
    /\ n' = n + 1
    /\ UNCHANGED << m_grid, ttm_grid, option_types, pc >>

\* one iteration of the loop body: construct_portfolio raises (kernel_weights'
\* ValueError), the exception leaves build_portfolios and nothing is returned
Raise ==
    /\ pc = "loop"
    /\ n < Total
    /\ \E c \in {CurrentCall} :
          /\ c.raised
          /\ frame' = c
    /\ pc' = "raised"
    /\ UNCHANGED << option_data, m_grid, ttm_grid, option_types, n, portfolios >>

\* return pd.DataFrame(portfolios)
Return ==
    /\ pc = "loop"
    /\ n = Total
    /\ pc' = "done"
    /\ UNCHANGED << option_data, m_grid, ttm_grid, option_types, n, portfolios, frame >>

Next == Iterate \/ Raise \/ Return

Spec == Init /\ [][Next]_vars

\* ------------------------------------------------------------------------
\* bs_elasticity over a wider range of valid quotes, one quote per run
\* ------------------------------------------------------------------------

ElastStrikes == {90, 95, 100, 105, 110}
ElastTtms == {15, 30, 45, 60, 75, 90}
ElastIvs == {2000, 3000, 4000}

ElastQuotes ==
    { [option_type |-> ty, strike |-> st, underlying |-> UNDERLYING,
       moneyness |-> (st * SCALE) \div UNDERLYING,
       ttm |-> tm, iv |-> iv, daily_return |-> ReturnOf(st)] :
      ty \in Types, st \in ElastStrikes, tm \in ElastTtms, iv \in ElastIvs }

ElastInit ==
    /\ option_data \in { << q >> : q \in ElastQuotes }
    /\ m_grid = << SCALE >>
    /\ ttm_grid = << 30, 60, 90 >>
    /\ option_types \in { << "call" >>, << "put" >>, << "call", "put" >> }
    /\ n = 0
    /\ pc = "loop"
    /\ portfolios = << >>
    /\ frame = NoFrame

SpecElasticity == ElastInit /\ [][Next]_vars

\* ------------------------------------------------------------------------
\* Properties
\* ------------------------------------------------------------------------

\* the last call of construct_portfolio returned a value
Returned == frame.called /\ ~frame.raised

\* a sum in plain float arithmetic: a NaN term makes the sum NaN
RECURSIVE PlainSum(_)
PlainSum(xs) == IF xs = << >> THEN Zero ELSE XAdd(Head(xs), PlainSum(Tail(xs)))

Rows == DOMAIN frame.subset
Candidates == DOMAIN frame.assigned

\* the row of the candidate table is no longer in the final table
Dropped(c) == \A p \in Rows : frame.subset[p].idx # frame.assigned[c].idx

\* the candidate a row of the final table comes from
CandidateOf(p) ==
    CHOOSE c \in Candidates : frame.assigned[c].idx = frame.subset[p].idx

\* T_years <= 0, sigma <= 0 or theoretical price <= 0
Invalid(row) == row.q.ttm <= 0 \/ row.q.iv <= 0 \/ ~XGt(row.price, Zero)

\* C1: the return of construct_portfolio equals the sum over the surviving
\* members of weight_i * (daily_return_i / elasticity_i), elasticity_i being the
\* Black-Scholes elasticity of member i's own columns.
C1_ReturnIsMemberSum ==
    Returned =>
        frame.ret =
            PlainSum([p \in Rows |->
                XMul(frame.subset[p].weight,
                     XDiv(ColRet(frame.subset[p].q),
                          RowElasticity(frame.subset[p].q, Fin(RATE),
                                        frame.option_type).elast))])

\* squared bandwidth-scaled distance of a candidate to the bucket's target,
\* ((dm / 0.0125)^2 + (dt / 10)^2) up to a common factor
ScaledDist2(c) ==
    LET dm == frame.assigned[c].q.moneyness - frame.k_s
        dt == frame.assigned[c].q.ttm - frame.ttm
    IN  (bw_t * dm) * (bw_t * dm) + (bw_m * dt) * (bw_m * dt)

\* C2: kernel_weights gives each candidate a weight that decays with its
\* bandwidth-scaled distance to the target: strictly nearer means strictly
\* larger, equally near means equal.
C2_WeightsDecay ==
    Returned =>
        \A c, d \in Candidates :
            /\ ScaledDist2(c) < ScaledDist2(d) =>
                   XGt(frame.assigned[c].weight, frame.assigned[d].weight)
            /\ ScaledDist2(c) = ScaledDist2(d) =>
                   frame.assigned[c].weight = frame.assigned[d].weight

\* C3: a member is dropped exactly when its normalized weight is below 1%,
\* and the kept weights are rescaled by their sum.
C3_DropBelowOnePercent ==
    Returned =>
        /\ \A c \in Candidates :
               Dropped(c) <=> XLt(frame.assigned[c].weight, Fin(MINW))
        /\ \A p \in Rows :
               frame.subset[p].weight =
                   XDiv(frame.assigned[CandidateOf(p)].weight,
                        PlainSum([k \in Rows |-> frame.assigned[CandidateOf(k)].weight]))

\* C4: whenever a member survives, the weights used in the bucket return are
\* non-negative and sum to 1 (exactly, at the fixed-point resolution).
C4_WeightsSumToOne ==
    (Returned /\ Rows # {}) =>
        /\ \A p \in Rows :
               IsFin(frame.subset[p].weight) /\ frame.subset[p].weight.v >= 0
        /\ PlainSum([p \in Rows |-> frame.subset[p].weight]) = One

\* two members share the bucket and both carry weight
C4_TwoMembers == Returned /\ Len(frame.subset) = 2

\* the bucket of the last call has no surviving member: no quote of its
\* option type, or every candidate dropped by the threshold
NoMember ==
    /\ frame.called
    /\ \/ RowsOfType(option_data, frame.option_type) = << >>
       \/ ~frame.raised /\ frame.subset = << >>

\* C5: a bucket without surviving members yields no record, and the run does
\* not fail on it.
C5_GapNotRecord ==
    NoMember =>
        /\ pc # "raised"
        /\ \A i \in DOMAIN portfolios :
               ~( /\ portfolios[i].type = frame.option_type
                  /\ portfolios[i].moneyness = frame.k_s
                  /\ portfolios[i].ttm = frame.ttm )

C7_InvalidRowRejected ==
    Returned =>
        \A p \in Rows :
            /\ IsFin(frame.subset[p].elast)
            /\ ~Invalid(frame.subset[p])

\* the ranges of the Level 2 filters: days to maturity, implied volatility and
\* moneyness (the last two in fixed-point units)
MinDays == 7
MaxDays == 180
MinIv == 500
MaxIv == 10000
MinMoneyness == 8000
MaxMoneyness == 12000

\* the quote is inside every range of the Level 2 filters
InFilterRanges(q) ==
    /\ q.ttm >= MinDays /\ q.ttm <= MaxDays
    /\ q.iv >= MinIv /\ q.iv <= MaxIv
    /\ q.moneyness >= MinMoneyness /\ q.moneyness <= MaxMoneyness

\* C11: no quote with days to maturity outside [7, 180], implied volatility
\* outside [0.05, 1.00] or moneyness outside [0.8, 1.2] reaches portfolio
\* construction: every row construct_portfolio weights is inside the ranges.
C11_OnlyFilteredQuotes ==
    Returned => \A c \in Candidates : InFilterRanges(frame.assigned[c].q)

EmptyConfiguration == m_grid = << >> \/ ttm_grid = << >> \/ option_types = << >>

\* C13: with an empty moneyness grid, maturity grid or option-type list the run
\* aborts before any bucket is processed: it never returns a panel.
C13_EmptyGridAborts ==
    EmptyConfiguration => pc # "done"

\* record i of the panel is the record of the i-th triple of the nested order
InNestedOrder(i) ==
    /\ portfolios[i].type = Triple(i - 1).opt_type
    /\ portfolios[i].moneyness = Triple(i - 1).k_s
    /\ portfolios[i].ttm = Triple(i - 1).ttm

\* two records of the panel are records of the same triple
SameTriple(i, j) ==
    /\ portfolios[i].type = portfolios[j].type
    /\ portfolios[i].moneyness = portfolios[j].moneyness
    /\ portfolios[i].ttm = portfolios[j].ttm

\* the records appended so far are those of the first n triples, in the nested
\* order option type, moneyness, maturity, one per triple
OneRecordPerTriple ==
    /\ Len(portfolios) = n
    /\ \A i \in DOMAIN portfolios : InNestedOrder(i)
    /\ \A i, j \in DOMAIN portfolios : i # j => ~SameTriple(i, j)

\* C14: build_portfolios visits each (option_type, moneyness, maturity) triple
\* exactly once in the nested order and ends by returning one record per
\* triple: the run never stops before the last triple, the records follow the
\* order without a repeated triple, and the returned panel has
\* Len(option_types) * Len(m_grid) * Len(ttm_grid) records.
C14_EveryTripleOnceInOrder ==
    /\ pc # "raised"
    /\ OneRecordPerTriple
    /\ pc = "done" => Len(portfolios) = Total

\* the quote table without the quotes of the other option types
OnlyType(data, option_type) ==
    SelectSeq(data, LAMBDA q : q.option_type = option_type)

\* C15: calls and puts are never mixed: the candidates and members of a bucket
\* of type t are quotes of type t, the members' weights sum to 1 among
\* themselves, each member's elasticity is the one of its own type's formula
\* branch, and the bucket return is the return the same call gives on the
\* table with every quote of another type removed.
C15_TypesNeverMixed ==
    Returned =>
        /\ \A c \in Candidates :
               frame.assigned[c].q.option_type = frame.option_type
        /\ \A p \in Rows :
               /\ frame.subset[p].q.option_type = frame.option_type
               /\ frame.subset[p].elast =
                      RowElasticity(frame.subset[p].q, Fin(RATE),
                                    frame.subset[p].q.option_type).elast
        /\ Rows # {} => PlainSum([p \in Rows |-> frame.subset[p].weight]) = One
        /\ frame.ret =
               construct_portfolio(OnlyType(option_data, frame.option_type),
                                   frame.k_s, frame.ttm, frame.option_type,
                                   Fin(RATE)).ret

\* a call bucket got a member from a table that also holds a put quote
C15_CallBucketBesidePut ==
    /\ Returned
    /\ frame.option_type = "call"
    /\ Rows # {}
    /\ \E i \in DOMAIN option_data : option_data[i].option_type = "put"

====
